---------------------------- MODULE Spec2Model ----------------------------
(***************************************************************************)
(* Hotel user-management backend: the generic query layer                  *)
(* (DB/db_common_query.py), the token primitives (users/utils.py,          *)
(* middleware/jwt_auth.py) and the register / login / complete-profile     *)
(* services (users/service.py) over a PostgreSQL store reached through     *)
(* psycopg2 connections created with cursor_factory = RealDictCursor       *)
(* (DB/db_connection.py).                                                  *)
(*                                                                         *)
(* Strings that the code inspects character by character (identifiers,     *)
(* RETURNING lists) are sequences of one-character strings, so that the    *)
(* regular expressions are computed and not assumed.                       *)
(***************************************************************************)
EXTENDS Integers, Sequences, FiniteSets, TLC

(***************************************************************************)
(* Characters and the Python string operations the query layer uses.       *)
(***************************************************************************)
Alpha == {"t", "i", "d", "k", "v", "u"}
Digit == {"1"}
Space == {" ", "\n"}

\* [a-zA-Z0-9_], which is also \w on these characters
IsWord(c) == c \in Alpha \cup Digit \cup {"_"}

SetMin(S) == CHOOSE x \in S : \A y \in S : x <= y
SetMax(S) == CHOOSE x \in S : \A y \in S : x >= y

\* str.strip(): leading and trailing whitespace removed
Strip(s) ==
    LET keep == {i \in 1..Len(s) : s[i] \notin Space}
    IN  IF keep = {} THEN <<>> ELSE SubSeq(s, SetMin(keep), SetMax(keep))

\* str.split(sep): the pieces between the separators (always at least one)
RECURSIVE Split(_, _)
Split(s, sep) ==
    LET at == {i \in 1..Len(s) : s[i] = sep}
    IN  IF at = {} THEN <<s>>
        ELSE <<SubSeq(s, 1, SetMin(at) - 1)>>
             \o Split(SubSeq(s, SetMin(at) + 1, Len(s)), sep)

\* re.match(r"^[a-zA-Z_][a-zA-Z0-9_]*$", s): Python's $ also matches just
\* before a newline that ends the string
MatchIdentifier(s) ==
    LET body == IF Len(s) >= 2 /\ s[Len(s)] = "\n"
                THEN SubSeq(s, 1, Len(s) - 1) ELSE s
    IN  /\ Len(body) >= 1
        /\ body[1] \in Alpha \cup {"_"}
        /\ \A i \in 2..Len(body) : IsWord(body[i])

\* the check of insert_row and update_by_id on a non-empty `returning`:
\* any(not re.match(ident, col.strip()) for col in returning.split(','))
ReturningRejectedStrict(returning) ==
    LET parts == Split(returning, ",")
    IN  \E i \in 1..Len(parts) : ~MatchIdentifier(Strip(parts[i]))

\* the check of delete_by_id: re.match(r'^[\w,\s*]+$', returning)
MatchReturningLoose(returning) ==
    /\ Len(returning) >= 1
    /\ \A i \in 1..Len(returning) :
          IsWord(returning[i]) \/ returning[i] \in Space \cup {",", "*"}


(***************************************************************************)
(* Bounds of the model.                                                    *)
(***************************************************************************)
MaxSeq == 2          \* values the id sequence of table t may hand out

NULL == 0 - 1
Val == {0, 1}        \* the non-NULL values of columns k and v
Ids == 1..MaxSeq

(***************************************************************************)
(* The store behind the query layer: one table t(id serial primary key,    *)
(* k unique, v), a row being a function from its column names to values.   *)
(* The engine is the part of PostgreSQL the statements of the query layer  *)
(* exercise; a name interpolated into the SQL text resolves to a table or  *)
(* column after surrounding whitespace is dropped, and text that is no     *)
(* name of the schema makes the statement fail.                            *)
(***************************************************************************)
T == <<"t">>
ID == <<"i", "d">>
K == <<"k">>
V == <<"v">>
Cols == {ID, K, V}
UniqueCols == {ID, K}
STAR == <<"*">>
NoRet == <<>>        \* returning = None (or ""): both are falsy in the code
NoLimit == 0 - 1     \* limit / offset = None

VARIABLES
    tbl,        \* the rows of table t
    seq,        \* the last value of t's id sequence
    qlast,      \* the last call of the query layer held by its caller
    now,        \* the clock, in seconds
    ticks,      \* the number of times the clock advanced
    algorithm,  \* ALGORITHM of users/utils.py
    secret,     \* SECRET_KEY of users/utils.py
    issued,     \* the tokens create_jwt_token issued, with the time of issue
    expired,    \* the tokens a verification rejected as expired
    tlast,      \* the last call of the token layer
    users,      \* the rows of table users
    useq,       \* the last value of users' id sequence
    guest_profiles,
    staff_profiles,
    open,       \* connections opened and not closed
    ulast,      \* the last service call held by its caller
    hlast,      \* the last handler request held by its client
    sess,       \* the register_user invocation in progress on each connection
    unique_enforced,  \* whether users has unique indexes on username and email
    overlapped  \* whether two invocations have been in progress at once

avars == <<now, ticks, algorithm, secret, issued, expired, tlast>>
uvars == <<users, useq, guest_profiles, staff_profiles, open, ulast>>
xvars == <<hlast, sess, unique_enforced, overlapped>>

TableKnown(x) == Strip(x) = T
KnownCol(x) == Strip(x) \in Cols

\* the keys of a dict that name column c
KeysFor(d, c) == {key \in DOMAIN d : Strip(key) = c}

DictOk(d) ==
    /\ \A key \in DOMAIN d : KnownCol(key)
    /\ \A c \in Cols : Cardinality(KeysFor(d, c)) <= 1

DictVal(d, c) == d[CHOOSE key \in KeysFor(d, c) : TRUE]

\* the words of a select-list item
Words(p) ==
    LET ws == Split([i \in 1..Len(p) |-> IF p[i] \in Space THEN " " ELSE p[i]], " ")
    IN  SelectSeq(ws, LAMBDA w : w # <<>>)

\* one item of a RETURNING list: *, a column, or a column with an alias
ItemOk(p) ==
    LET w == Words(p)
    IN  \/ w = <<STAR>>
        \/ Len(w) = 1 /\ w[1] \in Cols
        \/ Len(w) = 2 /\ w[1] \in Cols /\ MatchIdentifier(w[2]) /\ w[2] = Strip(w[2])

ItemNames(p) ==
    LET w == Words(p)
    IN  IF w = <<STAR>> THEN Cols ELSE {w[Len(w)]}

ItemSource(p, name) ==
    LET w == Words(p)
    IN  IF w = <<STAR>> THEN name ELSE w[1]

ReturningOk(returning) ==
    returning = NoRet
    \/ LET parts == Split(returning, ",")
       IN  \A i \in 1..Len(parts) : ItemOk(parts[i])

\* the row a RETURNING list makes of a table row (the last item naming an
\* output column gives its value, as in a dict)
ProjectParts(r, parts) ==
    [n \in UNION {ItemNames(parts[i]) : i \in 1..Len(parts)} |->
        r[ItemSource(parts[SetMax({i \in 1..Len(parts) : n \in ItemNames(parts[i])})], n)]]

Project(r, returning) == ProjectParts(r, Split(returning, ","))

Returned(rows, returning) ==
    IF returning = NoRet THEN <<>> ELSE [i \in 1..Len(rows) |-> Project(rows[i], returning)]

\* ascending order of a set of rows on a column (NULLs last), ties and the
\* absence of ORDER BY resolved by id
RowLess(a, b, c) ==
    \/ a[c] # NULL /\ (b[c] = NULL \/ a[c] < b[c])
    \/ a[c] = b[c] /\ a[ID] < b[ID]

RECURSIVE SortRows(_, _)
SortRows(S, c) ==
    IF S = {} THEN <<>>
    ELSE LET m == CHOOSE r \in S : \A o \in S \ {r} : RowLess(r, o, c)
         IN  <<m>> \o SortRows(S \ {m}, c)

\* the integrity constraints of t for a row set
Consistent(rows) ==
    /\ \A r \in rows : r[ID] # NULL
    /\ \A r1, r2 \in rows : r1 # r2 => r1[ID] # r2[ID]
    /\ \A r1, r2 \in rows : (r1 # r2 /\ r1[K] # NULL) => r1[K] # r2[K]

Failed(t, s) == [err |-> TRUE, tbl |-> t, seq |-> s, rows |-> <<>>, rowcount |-> 0 - 1]
\* rowcount is the number of rows the statement returned or affected
Done(t, s, rows, n) ==
    [err |-> FALSE, tbl |-> t, seq |-> s, rows |-> rows,
     rowcount |-> IF n < 0 THEN Len(rows) ELSE n]

Page(all, from, upto) == SubSeq(all, from + 1, IF upto < Len(all) THEN upto ELSE Len(all))

SelectPage(q, all) ==
    Page(all,
         IF q.limit # NoLimit /\ q.offset # NoLimit THEN q.offset ELSE 0,
         IF q.limit = NoLimit THEN Len(all)
         ELSE q.limit + (IF q.offset # NoLimit THEN q.offset ELSE 0))

EngineSelect(q, t, s) ==
    IF \/ ~TableKnown(q.table)
       \/ \E key \in DOMAIN q.where : ~KnownCol(key)
       \/ (q.order_by # <<>> /\ ~KnownCol(q.order_by))
    THEN Failed(t, s)
    ELSE Done(t, s,
              SelectPage(q, SortRows({r \in t : \A key \in DOMAIN q.where :
                                         q.where[key] # NULL /\ r[Strip(key)] = q.where[key]},
                                     IF q.order_by = <<>> THEN ID ELSE Strip(q.order_by))),
              0 - 1)

\* the row an INSERT proposes: the given columns, id defaulting to the next
\* value of the sequence, the other columns to NULL
Proposed(d, s) ==
    [c \in Cols |-> IF KeysFor(d, c) # {} THEN DictVal(d, c)
                    ELSE IF c = ID THEN s + 1 ELSE NULL]

\* the sequence is advanced when id takes its default, whatever becomes of
\* the statement and its transaction
SeqAfter(d, s) == IF KeysFor(d, ID) = {} THEN s + 1 ELSE s

\* the table with `old` replaced by `new` (old = {} : new added), if the
\* constraints allow it
Store(q, t, s2, old, new) ==
    IF ~Consistent((t \ old) \cup {new}) \/ new \in t \ old THEN Failed(t, s2)
    ELSE Done((t \ old) \cup {new}, s2, Returned(<<new>>, q.returning), 1)

EngineInsert(q, t, s) ==
    IF ~TableKnown(q.table) \/ ~DictOk(q.data) \/ ~ReturningOk(q.returning)
    THEN Failed(t, s)
    ELSE Store(q, t, SeqAfter(q.data, s), {}, Proposed(q.data, s))

\* the row ON CONFLICT DO UPDATE makes of the conflicting row
Overwrite(old, row, set) == [c \in Cols |-> IF c \in set THEN row[c] ELSE old[c]]

Resolve(q, t, s2, row, clash) ==
    IF clash = {} THEN Store(q, t, s2, {}, row)
    ELSE Store(q, t, s2, clash,
               Overwrite(CHOOSE r \in clash : TRUE, row,
                         {Strip(q.updates[i]) : i \in 1..Len(q.updates)}))

Arbitrate(q, t, s2, row, cc) ==
    Resolve(q, t, s2, row, {r \in t : row[cc] # NULL /\ r[cc] = row[cc]})

\* INSERT ... ON CONFLICT (conflict) DO UPDATE SET col = EXCLUDED.col, ...
EngineUpsert(q, t, s) ==
    IF \/ ~TableKnown(q.table) \/ ~DictOk(q.data) \/ ~ReturningOk(q.returning)
       \/ Strip(q.conflict) \notin UniqueCols
       \/ q.updates = <<>>
       \/ \E i \in 1..Len(q.updates) : ~KnownCol(q.updates[i])
       \/ \E i, j \in 1..Len(q.updates) : i # j /\ Strip(q.updates[i]) = Strip(q.updates[j])
    THEN Failed(t, s)
    ELSE Arbitrate(q, t, SeqAfter(q.data, s), Proposed(q.data, s), Strip(q.conflict))

Assigned(r, d) == [c \in Cols |-> IF KeysFor(d, c) # {} THEN DictVal(d, c) ELSE r[c]]

UpdateHit(q, t, s, hit) ==
    IF hit = {} THEN Done(t, s, <<>>, 0)
    ELSE Store(q, t, s, hit, Assigned(CHOOSE r \in hit : TRUE, q.data))

EngineUpdate(q, t, s) ==
    IF ~TableKnown(q.table) \/ ~DictOk(q.data) \/ ~ReturningOk(q.returning)
    THEN Failed(t, s)
    ELSE UpdateHit(q, t, s, {r \in t : q.id # NULL /\ r[ID] = q.id})

DeleteHit(q, t, s, hit) ==
    Done(t \ hit, s, Returned(SortRows(hit, ID), q.returning), Cardinality(hit))

EngineDelete(q, t, s) ==
    IF ~TableKnown(q.table) \/ ~ReturningOk(q.returning)
    THEN Failed(t, s)
    ELSE DeleteHit(q, t, s, {r \in t : q.id # NULL /\ r[ID] = q.id})

\* cur.execute(query, params): the statement's outcome inside the open
\* transaction
Engine(q, t, s) ==
    CASE q.kind = "select" -> EngineSelect(q, t, s)
      [] q.kind = "insert" -> EngineInsert(q, t, s)
      [] q.kind = "upsert" -> EngineUpsert(q, t, s)
      [] q.kind = "update" -> EngineUpdate(q, t, s)
      [] q.kind = "delete" -> EngineDelete(q, t, s)

(***************************************************************************)
(* Python values returned by the query layer, and the outcome of one call: *)
(* what it raised or returned, the store it leaves, and what it did to its *)
(* connection.                                                             *)
(***************************************************************************)
PyNone == [tag |-> "None", rows |-> <<>>, n |-> 0]
PyList(rows) == [tag |-> "List", rows |-> rows, n |-> Len(rows)]
PyRow(row) == [tag |-> "Row", rows |-> <<row>>, n |-> 1]
PyInt(n) == [tag |-> "Int", rows |-> <<>>, n |-> n]
PyRowsUpdated(n) == [tag |-> "RowsUpdated", rows |-> <<>>, n |-> n]

Outcome(raised, value, t, s, acquired, closes, rollbacks, commits, sql) ==
    [raised |-> raised, value |-> value, tbl |-> t, seq |-> s,
     acquired |-> acquired, closes |-> closes, rollbacks |-> rollbacks,
     commits |-> commits, sql |-> sql]

\* an exception raised before any connection is asked for
RaiseEarly(exc, t, s) == Outcome(exc, PyNone, t, s, 0, 0, 0, 0, 0)

Faults == {"none", "connect", "execute", "commit", "fetch"}

Statement(kind, table) ==
    [kind |-> kind, table |-> table, where |-> <<>>, order_by |-> <<>>,
     limit |-> NoLimit, offset |-> NoLimit, data |-> <<>>, conflict |-> <<>>,
     updates |-> <<>>, returning |-> NoRet, id |-> NULL]

\* OnError with conn.close() on the success path only
OnErrorNotClosed(t, s, commits) ==
    Outcome("DatabaseError", PyNone, t, s, 1, 0, 1, commits, 1)

\* except Exception: conn.rollback(); raise DatabaseError(...), then
\* finally: conn.close().  t is the store as last committed.
OnError(t, s, commits) == Outcome("DatabaseError", PyNone, t, s, 1, 1, 1, commits, 1)

\* execute_query after cur.execute ran the statement with outcome e
Executed(q, fetch, commit, fault, t, e) ==
    IF e.err THEN OnError(t, e.seq, 0)
    ELSE IF commit /\ fault = "commit" THEN OnError(t, e.seq, 0)
    ELSE IF fetch /\ q.kind = "select" /\ fault = "fetch"
    THEN OnError(IF commit THEN e.tbl ELSE t, e.seq, IF commit THEN 1 ELSE 0)
    ELSE Outcome("none",
                 IF fetch THEN (IF q.kind = "select" THEN PyList(e.rows) ELSE PyNone)
                 ELSE PyInt(e.rowcount),
                 IF commit THEN e.tbl ELSE t, e.seq,
                 1, 1, 0, IF commit THEN 1 ELSE 0, 1)

\* execute_query(query, params, fetch, commit).  `fault` is the step of this
\* call at which the driver raises ("none": no step does).
ExecuteQuery(q, fetch, commit, fault, t, s) ==
    IF q.kind = "empty" THEN RaiseEarly("ValueError", t, s)
    ELSE IF fault = "connect" THEN RaiseEarly("OperationalError", t, s)
    ELSE IF fault = "execute" THEN OnError(t, s, 0)
    ELSE Executed(q, fetch, commit, fault, t, Engine(q, t, s))

Returns(r, value) == [r EXCEPT !.value = value]
Reraise(r, exc) == [r EXCEPT !.raised = exc, !.value = PyNone]

\* FirstOrNone without the `if result` test: result[0] on whatever came
FirstUnchecked(r) ==
    CASE r.raised # "none" -> r
      [] r.value.tag = "List" /\ r.value.rows # <<>> -> Returns(r, PyRow(r.value.rows[1]))
      [] r.value.tag = "List" -> Reraise(r, "IndexError")
      [] OTHER -> Reraise(r, "TypeError")

\* `result[0] if result else None` on what execute_query returned: a
\* non-empty list gives its first row, a falsy value None, and a non-zero
\* int is not subscriptable
FirstOrNone(r) ==
    CASE r.raised # "none" -> r
      [] r.value.tag = "List" /\ r.value.rows # <<>> -> Returns(r, PyRow(r.value.rows[1]))
      [] r.value.tag = "Int" /\ r.value.n # 0 -> Reraise(r, "TypeError")
      [] OTHER -> Returns(r, PyNone)

\* `execute_query(...) or []`
ListOrEmpty(r) ==
    IF r.raised # "none" \/ (r.value.tag = "List" /\ r.value.rows # <<>>) THEN r
    ELSE Returns(r, PyList(<<>>))

\* {"rows_updated": result}
RowsUpdated(r) == IF r.raised # "none" THEN r ELSE Returns(r, PyRowsUpdated(r.value.n))

\* try: ... except Exception as e: raise DatabaseError(...)
WrapDatabaseError(r) == IF r.raised = "none" THEN r ELSE Reraise(r, "DatabaseError")

GetById(table, row_id, fault, t, s) ==
    IF ~MatchIdentifier(table) THEN RaiseEarly("ValueError", t, s)
    ELSE FirstOrNone(ExecuteQuery([Statement("select", table) EXCEPT !.where = (ID :> row_id)],
                                  TRUE, TRUE, fault, t, s))

GetByColumn(table, column, value, fault, t, s) ==
    IF ~MatchIdentifier(table) THEN RaiseEarly("ValueError", t, s)
    ELSE IF ~MatchIdentifier(column) THEN RaiseEarly("ValueError", t, s)
    ELSE FirstOrNone(ExecuteQuery([Statement("select", table) EXCEPT !.where = (column :> value)],
                                  TRUE, TRUE, fault, t, s))

GetAll(table, filters, order_by, limit, offset, fault, t, s) ==
    IF ~MatchIdentifier(table) THEN RaiseEarly("ValueError", t, s)
    ELSE IF order_by # <<>> /\ ~MatchIdentifier(order_by) THEN RaiseEarly("ValueError", t, s)
    ELSE ListOrEmpty(ExecuteQuery([Statement("select", table) EXCEPT
                                      !.where = filters, !.order_by = order_by,
                                      !.limit = limit,
                                      !.offset = IF limit # NoLimit THEN offset ELSE NoLimit],
                                  TRUE, TRUE, fault, t, s))

InsertRow(table, data, returning, fault, t, s) ==
    IF ~MatchIdentifier(table) THEN RaiseEarly("ValueError", t, s)
    ELSE IF DOMAIN data = {} THEN RaiseEarly("ValueError", t, s)
    ELSE IF returning # NoRet /\ ReturningRejectedStrict(returning)
    THEN RaiseEarly("ValueError", t, s)
    ELSE WrapDatabaseError(FirstOrNone(
             ExecuteQuery([Statement("insert", table) EXCEPT
                              !.data = data, !.returning = returning],
                          returning # NoRet, TRUE, fault, t, s)))

UpsertRow(table, data, conflict_column, update_columns, returning, fault, t, s) ==
    IF ~MatchIdentifier(table) THEN RaiseEarly("ValueError", t, s)
    ELSE IF DOMAIN data = {} THEN RaiseEarly("ValueError", t, s)
    ELSE WrapDatabaseError(FirstOrNone(
             ExecuteQuery([Statement("upsert", table) EXCEPT
                              !.data = data, !.conflict = conflict_column,
                              !.updates = update_columns, !.returning = returning],
                          returning # NoRet, TRUE, fault, t, s)))

\* what update_by_id makes of execute_query's result
UpdateResult(returning, r) == IF returning # NoRet THEN FirstOrNone(r) ELSE RowsUpdated(r)

UpdateById(table, row_id, data, returning, fault, t, s) ==
    IF ~MatchIdentifier(table) THEN RaiseEarly("ValueError", t, s)
    ELSE IF DOMAIN data = {} THEN RaiseEarly("ValueError", t, s)
    ELSE IF returning # NoRet /\ ReturningRejectedStrict(returning)
    THEN RaiseEarly("ValueError", t, s)
    ELSE WrapDatabaseError(UpdateResult(returning,
             ExecuteQuery([Statement("update", table) EXCEPT
                              !.data = data, !.id = row_id, !.returning = returning],
                          returning # NoRet, TRUE, fault, t, s)))

\* what delete_by_id makes of execute_query's result
DeleteResult(returning, r) == IF returning # NoRet THEN FirstOrNone(r) ELSE r

DeleteById(table, row_id, returning, fault, t, s) ==
    IF ~MatchIdentifier(table) THEN RaiseEarly("ValueError", t, s)
    ELSE IF returning # NoRet /\ ~MatchReturningLoose(returning)
    THEN RaiseEarly("ValueError", t, s)
    ELSE WrapDatabaseError(DeleteResult(returning,
             ExecuteQuery([Statement("delete", table) EXCEPT
                              !.id = row_id, !.returning = returning],
                          returning # NoRet, TRUE, fault, t, s)))

(***************************************************************************)
(* Calls of the query layer.  qlast is the last call: its arguments, the   *)
(* step at which the driver failed, its outcome and the table before it.   *)
(***************************************************************************)
NoArgs ==
    [table |-> <<>>, column |-> <<>>, filters |-> <<>>, data |-> <<>>,
     order_by |-> <<>>, conflict_column |-> <<>>, update_columns |-> <<>>,
     returning |-> NoRet, row_id |-> NULL, value |-> NULL,
     limit |-> NoLimit, offset |-> NoLimit,
     kind |-> "", fetch |-> FALSE, commit |-> FALSE]

\* arguments: names of the schema, a well-formed name the schema lacks, a name
\* with a trailing newline, and text with a leading digit, a space, a
\* hyphen, a semicolon
BadIdents == {<<"1", "t">>, <<"t", " ", "v">>, <<"t", "-", "v">>, <<"v", ";">>}
TableIn == {T, <<"u">>, <<"t", "\n">>} \cup BadIdents
ColumnIn == Cols \cup {<<"u">>, <<"v", "\n">>} \cup BadIdents
OrderIn == {<<>>} \cup ColumnIn
GoodData == {(V :> 0), (V :> 1), (K :> 0), (K :> 1 @@ V :> 0), (ID :> 1 @@ V :> 1),
             (ID :> 2 @@ K :> 0)}
DataIn == GoodData \cup {<<>>, (<<"u">> :> 0)} \cup {(b :> 0) : b \in BadIdents}
GoodFilters == {<<>>, (V :> 0), (K :> 1), (K :> 0 @@ V :> 1)}
FiltersIn == GoodFilters \cup {(<<"u">> :> 0)} \cup {(b :> 0) : b \in BadIdents}
GoodReturning == {NoRet, ID, STAR}
ReturningIn == GoodReturning \cup
    {<<"i", "d", ",", "v">>, <<"i", "d", ",", " ", "k">>, <<"i", "d", " ", "v">>,
     <<"u">>, <<",">>, <<"v", ";">>, <<"1", "t", ",", "v">>}
GoodUpdates == {<<V>>, <<K, V>>, <<ID>>}
UpdatesIn == GoodUpdates \cup {<<>>, <<V, V>>, <<V, <<"v", ";">>>>, <<<<"u">>>>}
ConflictIn == {K, ID, V, <<"u">>, <<"k", ";">>}
LimitIn == {NoLimit, 0, 1}

\* the calls made: every combination of ordinary arguments without a
\* fault, and each unusual argument or fault with the other arguments at
\* their first ordinary value
Dev(b) == IF b THEN 1 ELSE 0
Fix(x, ordinary, base) == x \notin ordinary \/ x = base

GetByIdCalls ==
    {c \in [table : TableIn, row_id : Ids, fault : Faults] :
        LET n == Dev(c.table # T) + Dev(c.fault # "none")
        IN  n = 0 \/ (n = 1 /\ c.row_id = 1)}

GetByColumnCalls ==
    {c \in [table : TableIn, column : ColumnIn, value : Val, fault : Faults] :
        LET n == Dev(c.table # T) + Dev(c.column \notin Cols) + Dev(c.fault # "none")
        IN  n = 0 \/ (n = 1 /\ Fix(c.column, Cols, K) /\ c.value = 0)}

GetAllCalls ==
    {c \in [table : TableIn, filters : FiltersIn, order_by : OrderIn,
            limit : LimitIn, offset : LimitIn, fault : Faults] :
        LET n == Dev(c.table # T) + Dev(c.filters \notin GoodFilters)
                   + Dev(c.order_by \notin {<<>>, V}) + Dev(c.offset # NoLimit)
                   + Dev(c.fault # "none")
        IN  n = 0 \/ (n = 1 /\ Fix(c.filters, GoodFilters, <<>>)
                            /\ Fix(c.order_by, {<<>>, V}, <<>>)
                            /\ c.limit = IF c.offset # NoLimit THEN 1 ELSE NoLimit)}

InsertRowCalls ==
    {c \in [table : TableIn, data : DataIn, returning : ReturningIn, fault : Faults] :
        LET n == Dev(c.table # T) + Dev(c.data \notin GoodData)
                   + Dev(c.returning \notin GoodReturning) + Dev(c.fault # "none")
        IN  n = 0 \/ (n = 1 /\ Fix(c.data, GoodData, (V :> 0))
                            /\ Fix(c.returning, GoodReturning, ID))}

UpsertRowCalls ==
    {c \in [table : TableIn, data : DataIn, conflict_column : ConflictIn,
            update_columns : UpdatesIn, returning : ReturningIn, fault : Faults] :
        LET n == Dev(c.table # T) + Dev(c.data \notin GoodData)
                   + Dev(c.conflict_column \notin UniqueCols)
                   + Dev(c.update_columns \notin GoodUpdates)
                   + Dev(c.returning \notin {NoRet, ID}) + Dev(c.fault # "none")
        IN  n = 0 \/ (n = 1 /\ Fix(c.data, GoodData, (K :> 0 @@ V :> 1))
                            /\ Fix(c.conflict_column, UniqueCols, K)
                            /\ Fix(c.update_columns, GoodUpdates, <<V>>)
                            /\ Fix(c.returning, {NoRet, ID}, ID))}

UpdateByIdCalls ==
    {c \in [table : TableIn, row_id : Ids, data : DataIn, returning : ReturningIn,
            fault : Faults] :
        LET n == Dev(c.table # T) + Dev(c.data \notin GoodData)
                   + Dev(c.returning \notin GoodReturning) + Dev(c.fault # "none")
        IN  n = 0 \/ (n = 1 /\ c.row_id = 1 /\ Fix(c.data, GoodData, (V :> 0))
                            /\ Fix(c.returning, GoodReturning, ID))}

DeleteByIdCalls ==
    {c \in [table : TableIn, row_id : Ids, returning : ReturningIn, fault : Faults] :
        LET n == Dev(c.table # T) + Dev(c.returning \notin GoodReturning)
                   + Dev(c.fault # "none")
        IN  n = 0 \/ (n = 1 /\ c.row_id = 1 /\ Fix(c.returning, GoodReturning, NoRet))}

ExecuteQueryCalls ==
    {c \in [kind : {"empty", "select", "insert", "delete"}, row_id : Ids, fetch : BOOLEAN,
            commit : BOOLEAN, fault : Faults] :
        LET n == Dev(c.kind = "empty") + Dev(c.fault # "none")
        IN  n = 0 \/ (n = 1 /\ c.row_id = 1)}

Idle == [op |-> "none", a |-> NoArgs, fault |-> "none",
         r |-> RaiseEarly("none", {}, 0), before |-> {}]

\* a call is made when the caller holds no result; it leaves the store as
\* the call left it and its result with the caller
Record(op, a, fault, r) ==
    /\ qlast = Idle
    /\ tbl' = r.tbl
    /\ seq' = r.seq
    /\ qlast' = [op |-> op, a |-> a, fault |-> fault, r |-> r, before |-> tbl]
    /\ UNCHANGED <<avars, uvars, xvars>>

CallGetById ==
    \E c \in GetByIdCalls :
        Record("get_by_id", [NoArgs EXCEPT !.table = c.table, !.row_id = c.row_id],
               c.fault, GetById(c.table, c.row_id, c.fault, tbl, seq))

CallGetByColumn ==
    \E c \in GetByColumnCalls :
        Record("get_by_column",
               [NoArgs EXCEPT !.table = c.table, !.column = c.column, !.value = c.value],
               c.fault, GetByColumn(c.table, c.column, c.value, c.fault, tbl, seq))

CallGetAll ==
    \E c \in GetAllCalls :
        Record("get_all",
               [NoArgs EXCEPT !.table = c.table, !.filters = c.filters,
                              !.order_by = c.order_by, !.limit = c.limit,
                              !.offset = c.offset],
               c.fault,
               GetAll(c.table, c.filters, c.order_by, c.limit, c.offset, c.fault, tbl, seq))

CallInsertRow ==
    \E c \in InsertRowCalls :
        /\ seq < MaxSeq
        /\ Record("insert_row",
                  [NoArgs EXCEPT !.table = c.table, !.data = c.data,
                                 !.returning = c.returning],
                  c.fault, InsertRow(c.table, c.data, c.returning, c.fault, tbl, seq))

CallUpsertRow ==
    \E c \in UpsertRowCalls :
        /\ seq < MaxSeq
        /\ Record("upsert_row",
                  [NoArgs EXCEPT !.table = c.table, !.data = c.data,
                                 !.conflict_column = c.conflict_column,
                                 !.update_columns = c.update_columns,
                                 !.returning = c.returning],
                  c.fault,
                  UpsertRow(c.table, c.data, c.conflict_column, c.update_columns,
                            c.returning, c.fault, tbl, seq))

CallUpdateById ==
    \E c \in UpdateByIdCalls :
        Record("update_by_id",
               [NoArgs EXCEPT !.table = c.table, !.row_id = c.row_id, !.data = c.data,
                              !.returning = c.returning],
               c.fault, UpdateById(c.table, c.row_id, c.data, c.returning, c.fault, tbl, seq))

CallDeleteById ==
    \E c \in DeleteByIdCalls :
        Record("delete_by_id",
               [NoArgs EXCEPT !.table = c.table, !.row_id = c.row_id,
                              !.returning = c.returning],
               c.fault, DeleteById(c.table, c.row_id, c.returning, c.fault, tbl, seq))

\* execute_query called directly, as the module exports it, with the text
\* of a statement on t (or with no text)
DirectStatement(kind, row_id) ==
    [Statement(kind, T) EXCEPT
        !.where = IF kind = "select" THEN (ID :> row_id) ELSE <<>>,
        !.data = IF kind = "insert" THEN (K :> 0 @@ V :> 1) ELSE <<>>,
        !.id = row_id]

CallExecuteQuery ==
    \E c \in ExecuteQueryCalls :
        /\ c.kind = "insert" => seq < MaxSeq
        /\ Record("execute_query",
                  [NoArgs EXCEPT !.table = T, !.row_id = c.row_id, !.kind = c.kind,
                                 !.fetch = c.fetch, !.commit = c.commit],
                  c.fault,
                  ExecuteQuery(DirectStatement(c.kind, c.row_id),
                               c.fetch, c.commit, c.fault, tbl, seq))

\* the caller takes the result
TakeResult ==
    /\ qlast # Idle
    /\ qlast' = Idle
    /\ UNCHANGED <<tbl, seq>>
    /\ UNCHANGED <<avars, uvars, xvars>>

qvars == <<tbl, seq, qlast>>

QNext ==
    \/ CallGetById
    \/ CallGetByColumn
    \/ CallGetAll
    \/ CallInsertRow
    \/ CallUpsertRow
    \/ CallUpdateById
    \/ CallDeleteById
    \/ CallExecuteQuery
    \/ TakeResult

(***************************************************************************)
(* Claims about the query layer, stated on the last call.                  *)
(***************************************************************************)
QueryOps == {"get_by_id", "get_by_column", "get_all", "insert_row", "upsert_row",
             "update_by_id", "delete_by_id"}
WriteOps == {"insert_row", "upsert_row", "update_by_id", "delete_by_id"}

\* a returning clause that matches: *, or a comma-separated list of texts
\* matching the identifier pattern (matching is re.match's, MatchIdentifier)
ValidReturning(x) ==
    \/ x = STAR
    \/ \A i \in 1..Len(Split(x, ",")) : MatchIdentifier(Strip(Split(x, ",")[i]))

\* the identifiers the caller supplied to the last call
SuppliedIdentifiers(c) ==
    {c.a.table}
    \cup (IF c.op = "get_by_column" THEN {c.a.column} ELSE {})
    \cup (IF c.op = "get_all" THEN DOMAIN c.a.filters \cup ({c.a.order_by} \ {<<>>}) ELSE {})
    \cup (IF c.op \in {"insert_row", "upsert_row", "update_by_id"} THEN DOMAIN c.a.data ELSE {})
    \cup (IF c.op = "upsert_row"
          THEN {c.a.conflict_column} \cup {c.a.update_columns[i] : i \in 1..Len(c.a.update_columns)}
          ELSE {})

SomeIdentifierInvalid(c) ==
    \/ \E x \in SuppliedIdentifiers(c) : ~MatchIdentifier(x)
    \/ c.op \in WriteOps /\ c.a.returning # NoRet /\ ~ValidReturning(c.a.returning)

\* C1: a query-layer call given an identifier that does not match the
\* pattern fails with a validation error and issues no SQL.
C1_InvalidIdentifierIssuesNoSql ==
    (qlast.op \in QueryOps /\ SomeIdentifierInvalid(qlast))
        => (qlast.r.raised = "ValueError" /\ qlast.r.sql = 0)

\* the rows of the table before the call that its id matches
Matched(c) == {r \in c.before : r[ID] = c.a.row_id}

\* the statement of a write executed, committed and affected a row
AffectedRow(c) ==
    /\ c.op \in WriteOps
    /\ c.r.commits = 1
    /\ c.op \in {"update_by_id", "delete_by_id"} => Matched(c) # {}

\* C2: a write with a non-empty `returning` whose statement succeeded and
\* affected a row returns that row's returning columns; update_by_id with an
\* empty `returning` returns {rows_updated: n}, n the number of rows matched.
C2_WriteReturnsRow ==
    /\ (AffectedRow(qlast) /\ qlast.a.returning # NoRet)
          => /\ qlast.r.raised = "none"
             /\ qlast.r.value.tag = "Row"
             /\ \E row \in tbl \cup qlast.before :
                   qlast.r.value.rows = <<Project(row, qlast.a.returning)>>
    /\ (qlast.op = "update_by_id" /\ qlast.r.commits = 1 /\ qlast.a.returning = NoRet)
          => /\ qlast.r.raised = "none"
             /\ qlast.r.value = PyRowsUpdated(Cardinality(Matched(qlast)))

\* a call on table t whose names are columns of t and during which the
\* driver does not fail
WellFormedLookup(c) ==
    /\ c.fault = "none"
    /\ c.a.table = T
    /\ c.op = "get_by_column" => c.a.column \in Cols
    /\ c.op = "delete_by_id" => c.a.returning \in {NoRet, STAR} \cup Cols

NoRowMatches(c) ==
    CASE c.op = "get_by_column" -> \A r \in c.before : r[c.a.column] # c.a.value
      [] OTHER -> Matched(c) = {}

\* C3: get_by_id and get_by_column on a key matching no row return None,
\* delete_by_id on an id matching no row returns 0 (None when `returning` is
\* requested); none raises and the store is unchanged.
C3_NotFoundIsNotAnError ==
    (/\ qlast.op \in {"get_by_id", "get_by_column", "delete_by_id"}
     /\ WellFormedLookup(qlast)
     /\ NoRowMatches(qlast))
        => /\ qlast.r.raised = "none"
           /\ qlast.r.value = IF qlast.op = "delete_by_id" /\ qlast.a.returning = NoRet
                              THEN PyInt(0) ELSE PyNone
           /\ tbl = qlast.before

\* C3 witness: a delete with RETURNING on a non-empty table holding no row
\* of that id, and a lookup by column that finds nothing in such a table
C3_Witness ==
    /\ qlast.op = "delete_by_id"
    /\ WellFormedLookup(qlast) /\ NoRowMatches(qlast)
    /\ qlast.a.returning = ID
    /\ qlast.before # {}
    /\ qlast.r.sql = 1

\* a step of execute_query at which the driver was made to fail
StepFails(c) ==
    /\ c.op = "execute_query"
    /\ c.a.kind # "empty"
    /\ \/ c.fault = "execute"
       \/ c.fault = "commit" /\ c.a.commit
       \/ c.fault = "fetch" /\ c.a.fetch /\ c.a.kind = "select"

TokenLifetime == 3600   \* timedelta(hours=1), in seconds
MaxTicks == 3           \* times the clock advances
MaxTokens == 1          \* tokens issued

Algorithms == {"HS256", "HS384", "HS512"}   \* values of the ALGORITHM setting
Secrets == {"k1", "k2"}                     \* values of the SECRET_KEY setting
ForeignKey == "k0"                          \* a key that is not the SECRET_KEY
UserIds == {1, 2}
Roles == {"guest", "staff"}

Claims(user_id, role, exp) == [user_id |-> user_id, role |-> role, exp |-> exp]
Sign(claims, key, alg) == [claims |-> claims, key |-> key, alg |-> alg]

\* jwt.encode(payload, key, algorithm)
Encode(claims, key, alg) ==
    [alg |-> alg, claims |-> claims, sig |-> Sign(claims, key, alg)]

\* create_jwt_token(user_id, role) at time t
CreateJwtToken(user_id, role, t, key, alg) ==
    Encode(Claims(user_id, role, t + TokenLifetime), key, alg)

Decoded(claims) == [ok |-> TRUE, error |-> "", claims |-> claims]
Refused(msg) == [ok |-> FALSE, error |-> msg, claims |-> Claims(0, "", 0)]

\* the algorithms decode_jwt_token passes to jwt.decode
DecodeAlgorithms == {"HS256"}

\* decode_jwt_token(token) at time t: jose refuses a header alg outside
\* `algorithms` and a signature that does not verify under the key
\* (JWTError), then an exp before the current time (ExpiredSignatureError)
DecodeJwtToken(token, t, key) ==
    IF token.alg \notin DecodeAlgorithms THEN Refused("Invalid token")
    ELSE IF token.sig # Sign(token.claims, key, token.alg) THEN Refused("Invalid token")
    ELSE IF token.claims.exp < t THEN Refused("Token has expired")
    ELSE Decoded(token.claims)

\* an Authorization header: absent, of another scheme, or "Bearer <token>"
NoHeader == [scheme |-> "", token |-> Encode(Claims(0, "", 0), "", "")]
Bearer(token) == [scheme |-> "Bearer", token |-> token]
Basic(token) == [scheme |-> "Basic", token |-> token]

\* get_authenticated_user(event): the claims user_id and role of the
\* decoded token (every token of the model carries user_id)
GetAuthenticatedUser(header, t, key) ==
    IF header.scheme # "Bearer" THEN Refused("Missing or invalid Authorization header")
    ELSE DecodeJwtToken(header.token, t, key)

\* tokens a client may present: the issued ones, an issued one with its
\* claims altered and its signature kept, and one signed with a foreign key
Altered(token) ==
    [token EXCEPT !.claims.role = IF token.claims.role = "staff" THEN "guest" ELSE "staff"]
Prolonged(token) == [token EXCEPT !.claims.exp = token.claims.exp + TokenLifetime]
Forged(user_id, t) == CreateJwtToken(user_id, "staff", t, ForeignKey, "HS256")

Presentable ==
    {i.token : i \in issued}
    \cup {Altered(i.token) : i \in issued}
    \cup {Prolonged(i.token) : i \in issued}
    \cup {Forged(1, now)}

NoCall == [op |-> "none", scheme |-> "", token |-> NoHeader.token, at |-> 0,
           r |-> Refused("")]

Verified(op, scheme, token, r) ==
    /\ tlast' = [op |-> op, scheme |-> scheme, token |-> token, at |-> now, r |-> r]
    /\ expired' = IF r.error = "Token has expired" THEN expired \cup {token} ELSE expired
    /\ UNCHANGED <<now, ticks, algorithm, secret, issued>>

IssueToken ==
    \E user_id \in UserIds, role \in Roles :
        /\ Cardinality(issued) < MaxTokens
        /\ issued' = issued \cup
              {[token |-> CreateJwtToken(user_id, role, now, secret, algorithm), at |-> now]}
        /\ tlast' = [op |-> "create_jwt_token", scheme |-> "",
                     token |-> CreateJwtToken(user_id, role, now, secret, algorithm),
                     at |-> now, r |-> Refused("")]
        /\ UNCHANGED <<now, ticks, algorithm, secret, expired>>
        /\ UNCHANGED <<qvars, uvars, xvars>>

VerifyToken ==
    \E token \in Presentable :
        /\ Verified("decode_jwt_token", "Bearer", token, DecodeJwtToken(token, now, secret))
        /\ UNCHANGED <<qvars, uvars, xvars>>

Authenticate ==
    \E header \in {NoHeader} \cup {Bearer(k) : k \in Presentable}
                  \cup {Basic(i.token) : i \in issued} :
        /\ Verified("get_authenticated_user", header.scheme, header.token,
                    GetAuthenticatedUser(header, now, secret))
        /\ UNCHANGED <<qvars, uvars, xvars>>

\* time passes: a second, or a second less than a token's lifetime
Tick ==
    \E d \in {1, TokenLifetime - 1} :
        /\ ticks < MaxTicks
        /\ now' = now + d
        /\ ticks' = ticks + 1
        /\ UNCHANGED <<algorithm, secret, issued, expired, tlast>>
        /\ UNCHANGED <<qvars, uvars, xvars>>

ANext ==
    \/ IssueToken
    \/ VerifyToken
    \/ Authenticate
    \/ Tick

(***************************************************************************)
(* Claims about the token layer.                                           *)
(***************************************************************************)
IssuedAt(token) == {i.at : i \in {j \in issued : j.token = token}}
Verifying ==
    tlast.op \in {"decode_jwt_token", "get_authenticated_user"} /\ tlast.scheme = "Bearer"

\* C6: decoding a token create_jwt_token issued, before its expiry, returns
\* claims with the user_id and role it was issued for, whatever the
\* configured secret and algorithm.
C6_TokenRoundTrip ==
    \A i \in issued :
        (tlast.op = "decode_jwt_token" /\ tlast.token = i.token
         /\ tlast.at <= i.at + TokenLifetime)
            => /\ tlast.r.ok
               /\ tlast.r.claims.user_id = i.token.claims.user_id
               /\ tlast.r.claims.role = i.token.claims.role

CorrectlySigned(token) == token.sig = Sign(token.claims, secret, token.alg)

\* C7: a token issued at t carries expiry t + 1 hour; a verification after
\* the expiry rejects it as expired; a token rejected as expired is never
\* accepted later; a token whose signature does not verify is rejected as
\* invalid at any time; a correctly signed token is accepted at every time
\* up to its expiry.
C7_TokenLifetime ==
    /\ \A i \in issued : i.token.claims.exp = i.at + TokenLifetime
    /\ (Verifying /\ CorrectlySigned(tlast.token) /\ tlast.at > tlast.token.claims.exp)
          => (~tlast.r.ok /\ tlast.r.error = "Token has expired")
    /\ (Verifying /\ tlast.token \in expired) => ~tlast.r.ok
    /\ (Verifying /\ ~CorrectlySigned(tlast.token))
          => (~tlast.r.ok /\ tlast.r.error = "Invalid token")
    /\ (Verifying /\ CorrectlySigned(tlast.token) /\ tlast.at <= tlast.token.claims.exp)
          => tlast.r.ok

(***************************************************************************)
(* The services of users/service.py.  They run their SQL on a cursor of a  *)
(* connection from get_db_connection, whose cursor_factory decides what a  *)
(* fetched row is: a tuple of values, or (RealDictCursor) a dict from      *)
(* column names to values.                                                 *)
(***************************************************************************)
CursorFactory == "RealDictCursor"
MaxUsers == 2        \* values the id sequence of users may hand out
MaxOpen == 1         \* connections left open at a time

Absent == "<absent>"                \* a key the request body does not have
Salts == {"s1", "s2"}               \* values of bcrypt.gensalt()

\* Python values: an int, a str, or the str that is a bcrypt hash
PyI(n) == [kind |-> "int", n |-> n, s |-> "", salt |-> ""]
PyS(x) == [kind |-> "str", n |-> 0, s |-> x, salt |-> ""]
PyHash(pw, salt) == [kind |-> "bcrypt", n |-> 0, s |-> pw, salt |-> salt]

\* hash_password(password) with the salt drawn
HashPassword(password, salt) == PyHash(password, salt)

\* verify_password(plain, hashed): bcrypt.checkpw raises ValueError
\* ("Invalid salt") on a str that is no bcrypt hash
VerifyPassword(plain, hashed) ==
    IF hashed.kind # "bcrypt" THEN "ValueError"
    ELSE IF hashed.s = plain THEN "True" ELSE "False"

\* a row as the cursor returns it
Fetched(cols, vals) == [cols |-> cols, vals |-> vals]

\* row[i] for an int i: the i-th value of a tuple; a dict has no int key
GetItem(row, i) ==
    IF CursorFactory = "RealDictCursor" THEN [err |-> "KeyError", val |-> PyI(i)]
    ELSE IF i + 1 <= Len(row.vals) THEN [err |-> "", val |-> row.vals[i + 1]]
    ELSE [err |-> "IndexError", val |-> PyI(i)]

\* iterating a row, as tuple unpacking does: the values of a tuple, the
\* keys of a dict
Iterate(row) ==
    IF CursorFactory = "RealDictCursor" THEN [i \in 1..Len(row.cols) |-> PyS(row.cols[i])]
    ELSE row.vals

\* the store the services act on
Store3(u, g, st) == [users |-> u, guest |-> g, staff |-> st]

\* the outcome of a service call: what it returned or raised, the store and
\* sequence it leaves, and what it did to its connection
Reply(status, message, body, db, sq, acquired, closed) ==
    [status |-> status, message |-> message, body |-> body, db |-> db, useq |-> sq,
     acquired |-> acquired, closed |-> closed]

NoBody == [id |-> 0, username |-> "", user_role |-> "", token |-> NoHeader.token]

UFaults == {"none", "connect", "execute", "commit"}

UserRow(id, username, email, password, user_role) ==
    [id |-> id, username |-> username, email |-> email, password |-> password,
     user_role |-> user_role, profile_completed |-> FALSE]

AddUser(db, row) == [db EXCEPT !.users = @ \cup {row}]

\* register_user from the commit on: the row is stored, then the reply is
\* built from result[0], result[1], result[2]
RegisterReply(db, sq, row, i0, i1, i2) ==
    IF i0.err # "" THEN Reply("error", i0.err, NoBody, AddUser(db, row), sq, 1, 1)
    ELSE IF i1.err # "" THEN Reply("error", i1.err, NoBody, AddUser(db, row), sq, 1, 1)
    ELSE IF i2.err # "" THEN Reply("error", i2.err, NoBody, AddUser(db, row), sq, 1, 1)
    ELSE Reply("success", "",
               [NoBody EXCEPT !.id = i0.val.n, !.username = i1.val.s, !.user_role = i2.val.s],
               AddUser(db, row), sq, 1, 1)

RegisterCommit(db, sq, row, result, fault) ==
    IF fault = "commit" THEN Reply("error", "commit failed", NoBody, db, sq, 1, 1)
    ELSE RegisterReply(db, sq, row, GetItem(result, 0), GetItem(result, 1), GetItem(result, 2))

\* INSERT INTO users (...) VALUES (...) RETURNING id, username
RegisterInsert(db, sq, row, fault) ==
    RegisterCommit(db, sq, row,
                   Fetched(<<"id", "username">>, <<PyI(row.id), PyS(row.username)>>), fault)

\* register_user(data); data.get("user_role", "guest")
RegisterUser(data, salt, fault, db, sq) ==
    IF Absent \in {data.username, data.email, data.password}
    THEN Reply("raised", "KeyError", NoBody, db, sq, 0, 0)
    ELSE IF data.username = "" \/ data.email = "" \/ data.password = ""
    THEN Reply("error", "Username, email, and password are required", NoBody, db, sq, 0, 0)
    ELSE IF fault = "connect" THEN Reply("raised", "OperationalError", NoBody, db, sq, 0, 0)
    ELSE IF fault = "execute" THEN Reply("error", "execute failed", NoBody, db, sq, 1, 1)
    ELSE IF \E u \in db.users : u.username = data.username \/ u.email = data.email
    THEN Reply("error", "Username or email already exists", NoBody, db, sq, 1, 1)
    ELSE RegisterInsert(db, sq + 1,
                        UserRow(sq + 1, data.username, data.email,
                                HashPassword(data.password, salt),
                                IF data.user_role = Absent THEN "guest" ELSE data.user_role),
                        fault)

\* the row SELECT id, password, user_role FROM users WHERE email = %s gives
LoginRow(u) ==
    Fetched(<<"id", "password", "user_role">>, <<PyI(u.id), u.password, PyS(u.user_role)>>)

\* login_user after `user_id, hashed_password, role = user`; the connection
\* is left to its `with` block, which ends the transaction and does not
\* close it
LoginCheck(password, user_id, hashed_password, role, db, sq) ==
    IF VerifyPassword(password, hashed_password) = "ValueError"
    THEN Reply("raised", "Invalid salt", NoBody, db, sq, 1, 0)
    ELSE IF VerifyPassword(password, hashed_password) = "False"
    THEN Reply("raised", "Invalid password", NoBody, db, sq, 1, 0)
    ELSE Reply("success", "",
               [NoBody EXCEPT !.id = user_id.n, !.user_role = role.s,
                              !.token = CreateJwtToken(user_id.n, role.s, now, secret, algorithm)],
               db, sq, 1, 0)

LoginUnpack(password, fields, db, sq) ==
    IF Len(fields) # 3 THEN Reply("raised", "ValueError", NoBody, db, sq, 1, 0)
    ELSE LoginCheck(password, fields[1], fields[2], fields[3], db, sq)

LoginFound(password, found, db, sq) ==
    IF found = {} THEN Reply("raised", "User not found", NoBody, db, sq, 1, 0)
    ELSE LoginUnpack(password,
                     Iterate(LoginRow(CHOOSE u \in found : \A o \in found : u.id <= o.id)),
                     db, sq)

\* login_user(email, password)
LoginUser(email, password, fault, db, sq) ==
    IF fault = "connect" THEN Reply("raised", "OperationalError", NoBody, db, sq, 0, 0)
    ELSE IF fault = "execute" THEN Reply("raised", "execute failed", NoBody, db, sq, 1, 0)
    ELSE LoginFound(password, {u \in db.users : u.email = email}, db, sq)

StaffFields == <<"first_name", "last_name", "date_of_birth", "address", "position_id",
                 "hire_date">>
GuestFields == <<"first_name", "last_name", "date_of_birth", "address">>

Missing(required, profile_data) ==
    {i \in 1..Len(required) : required[i] \notin profile_data.fields}

ProfileRow(user_id, profile_data) == [user_id |-> user_id, address |-> profile_data.address]

\* INSERT ... ON CONFLICT (user_id) DO UPDATE SET ... on a profile table
UpsertProfile(rows, row) == {r \in rows : r.user_id # row.user_id} \cup {row}

\* UPDATE users SET profile_completed = TRUE WHERE id = %s
MarkCompleted(rows, user_id) ==
    {IF u.id = user_id THEN [u EXCEPT !.profile_completed = TRUE] ELSE u : u \in rows}

CompleteStore(user_role, user_id, profile_data, fault, db, sq) ==
    IF fault = "commit" THEN Reply("error", "commit failed", NoBody, db, sq, 1, 1)
    ELSE Reply("success", user_role, NoBody,
               Store3(MarkCompleted(db.users, user_id),
                      IF user_role = "guest"
                      THEN UpsertProfile(db.guest, ProfileRow(user_id, profile_data))
                      ELSE db.guest,
                      IF user_role = "staff"
                      THEN UpsertProfile(db.staff, ProfileRow(user_id, profile_data))
                      ELSE db.staff),
               sq, 1, 1)

CompleteRequired(user_role, required, user_id, profile_data, fault, db, sq) ==
    IF Missing(required, profile_data) # {}
    THEN Reply("error", "Missing required field", NoBody, db, sq, 1, 1)
    ELSE CompleteStore(user_role, user_id, profile_data, fault, db, sq)

\* complete_profile from `user_role = user[0]` on
CompleteRole(item, user_id, profile_data, fault, db, sq) ==
    IF item.err # "" THEN Reply("error", item.err, NoBody, db, sq, 1, 1)
    ELSE IF item.val.s = "staff"
    THEN CompleteRequired("staff", StaffFields, user_id, profile_data, fault, db, sq)
    ELSE IF item.val.s = "guest"
    THEN CompleteRequired("guest", GuestFields, user_id, profile_data, fault, db, sq)
    ELSE Reply("error", "Invalid user role", NoBody, db, sq, 1, 1)

CompleteFound(found, user_id, profile_data, fault, db, sq) ==
    IF found = {} THEN Reply("error", "User not found", NoBody, db, sq, 1, 1)
    ELSE CompleteRole(GetItem(Fetched(<<"user_role">>,
                                      <<PyS((CHOOSE u \in found : TRUE).user_role)>>), 0),
                      user_id, profile_data, fault, db, sq)

\* complete_profile(user_id, profile_data)
CompleteProfile(user_id, profile_data, fault, db, sq) ==
    IF fault = "connect" THEN Reply("raised", "OperationalError", NoBody, db, sq, 0, 0)
    ELSE IF fault = "execute" THEN Reply("error", "execute failed", NoBody, db, sq, 1, 1)
    ELSE CompleteFound({u \in db.users : u.id = user_id}, user_id, profile_data, fault, db, sq)

(***************************************************************************)
(* Requests to the services.                                               *)
(***************************************************************************)
Usernames == {"alice", "bob"}
Emails == {"a@x.com", "b@x.com"}
RolesIn == {Absent, "staff", "admin"}
Addresses == {"a1", "a2"}

RegisterData(username, email, password, user_role) ==
    [username |-> username, email |-> email, password |-> password, user_role |-> user_role]

RegisterInputs ==
    {RegisterData(u, e, "pw", ro) : u \in Usernames, e \in Emails, ro \in RolesIn}
    \cup {RegisterData(u, "a@x.com", "pw", Absent) : u \in {"", Absent}}
    \cup {RegisterData("alice", e, "pw", Absent) : e \in {"", Absent}}
    \cup {RegisterData("alice", "a@x.com", pw, Absent) : pw \in {"", Absent}}

LoginInputs == [email : Emails, password : {"pw", "bad"}]

Range(f) == {f[i] : i \in DOMAIN f}

ProfileData(fields, address) ==
    [fields |-> fields, address |-> IF "address" \in fields THEN address ELSE Absent]

ProfileInputs ==
    {ProfileData(fields, address) :
        fields \in {Range(StaffFields), Range(GuestFields), Range(GuestFields) \ {"address"}},
        address \in Addresses}

NoData == RegisterData(Absent, Absent, Absent, Absent)
NoProfile == ProfileData({}, Absent)
UIdle == [op |-> "none", data |-> NoData, user_id |-> 0, profile_data |-> NoProfile,
          fault |-> "none", before |-> Store3({}, {}, {}),
          r |-> Reply("", "", NoBody, Store3({}, {}, {}), 0, 0, 0)]

Db == Store3(users, guest_profiles, staff_profiles)

\* a request is served when the caller holds no reply; it leaves the store
\* as the service left it, the connection as the service left it, and the
\* reply with the caller
Serve(op, data, user_id, profile_data, fault, r) ==
    /\ ulast = UIdle
    /\ open + r.acquired - r.closed <= MaxOpen
    /\ users' = r.db.users
    /\ guest_profiles' = r.db.guest
    /\ staff_profiles' = r.db.staff
    /\ useq' = r.useq
    /\ open' = open + r.acquired - r.closed
    /\ ulast' = [op |-> op, data |-> data, user_id |-> user_id,
                 profile_data |-> profile_data, fault |-> fault, before |-> Db, r |-> r]
    /\ UNCHANGED <<qvars, avars, xvars>>

CallRegisterUser ==
    \E data \in RegisterInputs, salt \in Salts, fault \in UFaults :
        /\ useq < MaxUsers
        /\ Serve("register_user", data, 0, NoProfile, fault,
                 RegisterUser(data, salt, fault, Db, useq))

CallLoginUser ==
    \E c \in LoginInputs, fault \in UFaults \ {"commit"} :
        Serve("login_user", RegisterData(Absent, c.email, c.password, Absent), 0, NoProfile,
              fault, LoginUser(c.email, c.password, fault, Db, useq))

CallCompleteProfile ==
    \E user_id \in 1..MaxUsers, profile_data \in ProfileInputs, fault \in UFaults :
        Serve("complete_profile", NoData, user_id, profile_data, fault,
              CompleteProfile(user_id, profile_data, fault, Db, useq))

\* the caller drops the reply
TakeReply ==
    /\ ulast # UIdle
    /\ ulast' = UIdle
    /\ UNCHANGED <<users, useq, guest_profiles, staff_profiles, open>>
    /\ UNCHANGED <<qvars, avars, xvars>>

\* a connection nothing refers to any more is finalized, which closes it
Collect ==
    /\ open > 0
    /\ ulast = UIdle
    /\ open' = open - 1
    /\ UNCHANGED <<users, useq, guest_profiles, staff_profiles, ulast>>
    /\ UNCHANGED <<qvars, avars, xvars>>

UNext ==
    \/ CallRegisterUser
    \/ CallLoginUser
    \/ CallCompleteProfile
    \/ TakeReply
    \/ Collect

(***************************************************************************)
(* Claims about the services, stated on the last request.                  *)
(***************************************************************************)
Served(op) == ulast.op = op /\ ulast.fault = "none"

\* C5: every invocation of register_user, login_user and complete_profile
\* that acquired a connection has closed it when it returns or raises, so
\* that no connection stays open after a request.
C5_ConnectionReleased ==
    /\ ulast # UIdle => ulast.r.closed = ulast.r.acquired
    /\ open = 0

NonEmpty(data) ==
    /\ Absent \notin {data.username, data.email, data.password}
    /\ "" \notin {data.username, data.email, data.password}

Taken(data, rows) == \E u \in rows : u.username = data.username \/ u.email = data.email

Created(data, r) ==
    \E u \in users :
        /\ users = ulast.before.users \cup {u}
        /\ u \notin ulast.before.users
        /\ u.username = data.username
        /\ u.email = data.email
        /\ u.password.kind = "bcrypt" /\ u.password.s = data.password
        /\ u.user_role = (IF data.user_role = Absent THEN "guest" ELSE data.user_role)
        /\ ~u.profile_completed
        /\ r.status = "success"
        /\ r.body.id = u.id /\ r.body.username = u.username /\ r.body.user_role = u.user_role

\* C8: register_user with non-empty username, email and password that no
\* User has inserts exactly one User row (hashed password, requested role or
\* guest, profile_completed false) and returns success with the created id,
\* username and role; with a username or email that exists it returns an
\* "already exists" error.
C8_Register ==
    (Served("register_user") /\ NonEmpty(ulast.data)) =>
        IF Taken(ulast.data, ulast.before.users)
        THEN /\ ulast.r.status = "error"
             /\ ulast.r.message = "Username or email already exists"
             /\ users = ulast.before.users
        ELSE Created(ulast.data, ulast.r)

Credentialed(email, password, rows) ==
    {u \in rows : u.email = email /\ VerifyPassword(password, u.password) = "True"}

TokenFor(token, rows) ==
    \E u \in rows : token.claims.user_id = u.id /\ token.claims.role = u.user_role

\* C9: login_user(email, password) issues a token if and only if a User with
\* that email exists whose stored hash the password verifies against, the
\* token's claims being that User's id and role; otherwise it fails with an
\* authentication error; it never changes the store.
C9_Login ==
    Served("login_user") =>
        /\ Db = ulast.before
        /\ IF Credentialed(ulast.data.email, ulast.data.password, ulast.before.users) # {}
           THEN /\ ulast.r.status = "success"
                /\ TokenFor(ulast.r.body.token,
                            Credentialed(ulast.data.email, ulast.data.password,
                                         ulast.before.users))
           ELSE /\ ulast.r.status = "raised"
                /\ ulast.r.message \in {"User not found", "Invalid password"}

NewRows == users \ ulast.before.users

\* C14: register_user returns status "error" only if the users table is as
\* it was before the call, and status "success" only if exactly one new User
\* row was committed.
C14_RegisterOutcomeAgrees ==
    ulast.op = "register_user" =>
        /\ ulast.r.status = "error" => users = ulast.before.users
        /\ ulast.r.status = "success" =>
              Cardinality(NewRows) = 1 /\ ulast.before.users \subseteq users

ProfilesOf(user_id, rows) == {p \in rows : p.user_id = user_id}

ProfileConsistent ==
    \A u \in users :
        /\ u.profile_completed <=>
              (ProfilesOf(u.id, guest_profiles) \cup ProfilesOf(u.id, staff_profiles)) # {}
        /\ ProfilesOf(u.id, guest_profiles) # {} => u.user_role = "guest"
        /\ ProfilesOf(u.id, staff_profiles) # {} => u.user_role = "staff"
        /\ Cardinality(ProfilesOf(u.id, guest_profiles)) <= 1
        /\ Cardinality(ProfilesOf(u.id, staff_profiles)) <= 1

RequiredFor(user_role) == IF user_role = "staff" THEN StaffFields ELSE GuestFields
ProfileTable(user_role) == IF user_role = "staff" THEN staff_profiles ELSE guest_profiles

Completed(u, profile_data) ==
    /\ ulast.r.status = "success"
    /\ \E v \in users : v.id = u.id /\ v.profile_completed
    /\ ProfilesOf(u.id, ProfileTable(u.user_role)) = {ProfileRow(u.id, profile_data)}

MissingRefused ==
    /\ ulast.r.status = "error"
    /\ ulast.r.message = "Missing required field"
    /\ Db = ulast.before

\* C10: a User has profile_completed true if and only if one profile row
\* with its user_id exists, in the table of its role; complete_profile with
\* all the fields its role requires sets the flag and stores the row (a
\* repeated call overwriting it), and with a required field missing it fails
\* with a missing-field error and changes nothing.
C10_ProfileConsistency ==
    /\ ProfileConsistent
    /\ Served("complete_profile") =>
          \A u \in ulast.before.users :
              (u.id = ulast.user_id /\ u.user_role \in {"guest", "staff"}) =>
                  IF Missing(RequiredFor(u.user_role), ulast.profile_data) = {}
                  THEN Completed(u, ulast.profile_data)
                  ELSE MissingRefused

(***************************************************************************)
(* register_user run by two invocations at once, each on its own           *)
(* connection.  The statements of an invocation are separate steps; a      *)
(* SELECT sees the committed rows only, an INSERT is private to its        *)
(* transaction until the commit.  Whether users has unique indexes on      *)
(* username and email is a property of the store, fixed when it is created.*)
(***************************************************************************)
Sessions == {"c1", "c2"}

NoRow == UserRow(0, "", "", PyS(""), "")
Resting == [pc |-> "rest", data |-> NoData, row |-> NoRow, status |-> "", message |-> ""]
Rested(status, message) == [Resting EXCEPT !.status = status, !.message = message]

RaceInputs ==
    {RegisterData(u, e, "pw", Absent) : u \in Usernames, e \in Emails}
    \cup {RegisterData("", "a@x.com", "pw", Absent)}

\* a variant of AlreadyExists that never finds a row
AlreadyExistsNever(data, rows) == FALSE

\* SELECT id FROM users WHERE username = %s OR email = %s; cur.fetchone()
AlreadyExists(data, rows) ==
    \E u \in rows : u.username = data.username \/ u.email = data.email

\* the rows other transactions have inserted and not yet committed
Pending(c) == {sess[o].row : o \in {x \in Sessions \ {c} : sess[x].pc = "inserted"}}

\* two rows that a unique index on username or on email keeps apart
Clash(a, b) == a.username = b.username \/ a.email = b.email

InProgress == {c \in Sessions : sess[c].pc # "rest"}
BeforeInsert == {c \in Sessions : sess[c].pc \in {"connected", "checked"}}

\* register_user up to conn = get_db_connection()
Begin(c) ==
    \E data \in RaceInputs :
        /\ sess[c].pc = "rest"
        /\ useq + Cardinality(BeforeInsert) < MaxUsers
        /\ IF data.username = "" \/ data.email = "" \/ data.password = ""
           THEN /\ sess' = [sess EXCEPT ![c] =
                       Rested("error", "Username, email, and password are required")]
                /\ UNCHANGED <<open, overlapped>>
           ELSE /\ sess' = [sess EXCEPT ![c] = [Resting EXCEPT !.pc = "connected",
                                                                !.data = data]]
                /\ open' = open + 1
                /\ overlapped' = (overlapped \/ InProgress # {})
        /\ UNCHANGED <<users, useq, guest_profiles, staff_profiles, ulast, hlast,
                       unique_enforced>>
        /\ UNCHANGED <<qvars, avars>>

\* the pre-check: a row found raises ValueError, which rolls back, returns
\* the error and closes the connection
PreCheck(c) ==
    /\ sess[c].pc = "connected"
    /\ IF AlreadyExists(sess[c].data, users)
       THEN /\ sess' = [sess EXCEPT ![c] = Rested("error", "Username or email already exists")]
            /\ open' = open - 1
       ELSE /\ sess' = [sess EXCEPT ![c].pc = "checked"]
            /\ UNCHANGED open
    /\ UNCHANGED <<users, useq, guest_profiles, staff_profiles, ulast, hlast,
                   unique_enforced, overlapped>>
    /\ UNCHANGED <<qvars, avars>>

\* the INSERT of row: under unique indexes it waits for a transaction that
\* holds a clashing uncommitted row, and fails on a clashing committed row
\* (the id has been drawn from the sequence by then)
Inserting(c, row) ==
    /\ unique_enforced => \A o \in Pending(c) : ~Clash(o, row)
    /\ useq' = row.id
    /\ IF unique_enforced /\ \E u \in users : Clash(u, row)
       THEN /\ sess' = [sess EXCEPT ![c] = Rested("error", "UniqueViolation")]
            /\ open' = open - 1
       ELSE /\ sess' = [sess EXCEPT ![c].pc = "inserted", ![c].row = row]
            /\ UNCHANGED open

Insert(c) ==
    \E salt \in Salts :
        /\ sess[c].pc = "checked"
        /\ Inserting(c, UserRow(useq + 1, sess[c].data.username, sess[c].data.email,
                                HashPassword(sess[c].data.password, salt), "guest"))
        /\ UNCHANGED <<users, guest_profiles, staff_profiles, ulast, hlast,
                       unique_enforced, overlapped>>
        /\ UNCHANGED <<qvars, avars>>

\* conn.commit(), the reply built from the fetched row, conn.close()
Replied(c, r) ==
    /\ users' = r.db.users
    /\ sess' = [sess EXCEPT ![c] = Rested(r.status, r.message)]
    /\ open' = open - 1

Commit(c) ==
    /\ sess[c].pc = "inserted"
    /\ Replied(c, RegisterInsert(Db, useq, sess[c].row, "none"))
    /\ UNCHANGED <<useq, guest_profiles, staff_profiles, ulast, hlast,
                   unique_enforced, overlapped>>
    /\ UNCHANGED <<qvars, avars>>

RNext ==
    \E c \in Sessions :
        \/ Begin(c)
        \/ PreCheck(c)
        \/ Insert(c)
        \/ Commit(c)

(***************************************************************************)
(* Claims about concurrent registration.                                   *)
(***************************************************************************)
UniqueUsers ==
    \A u \in users : \A v \in users : (u # v) => ~Clash(u, v)

\* C12: usernames and emails of User rows are unique after any sequence of
\* register_user invocations that ran one after another, and after any
\* interleaving of invocations when the store has unique indexes on username
\* and email.
C12_RegistrationUnique ==
    (unique_enforced \/ ~overlapped) => UniqueUsers

\* C12 witness: without unique indexes two invocations that ran at once have
\* both passed the pre-check and committed, leaving two rows with the same
\* username or email.
C12_Witness ==
    /\ ~unique_enforced
    /\ overlapped
    /\ InProgress = {}
    /\ \E u \in users : \E v \in users : u # v /\ Clash(u, v)

(***************************************************************************)
(* The request handlers users/complete_profile.py and                      *)
(* users/register_user.py: an event carries an Authorization header and a  *)
(* body, the response a status code.                                       *)
(***************************************************************************)
\* an event body: text that json.loads refuses, or a JSON object with or
\* without the key user_id besides its profile fields
Malformed == [kind |-> "malformed", has_user_id |-> FALSE, profile_data |-> NoProfile]
JsonBody(has_user_id, profile_data) ==
    [kind |-> "json", has_user_id |-> has_user_id, profile_data |-> profile_data]

Respond(statusCode, message, db, sq, acquired, closed) ==
    [statusCode |-> statusCode, message |-> message, db |-> db, useq |-> sq,
     acquired |-> acquired, closed |-> closed]

\* the response built from what the service returned; a service that raised
\* is answered by the handler's outer except
ServiceResponse(r) ==
    IF r.status = "raised"
    THEN Respond("500", "Internal server error", r.db, r.useq, r.acquired, r.closed)
    ELSE Respond(IF r.status = "success" THEN "200" ELSE "400", r.message, r.db, r.useq,
                 r.acquired, r.closed)

\* a variant of AfterAuthentication that passes a body carrying user_id on
\* to the service
AfterAuthenticationUnguarded(user, body, fault, db, sq) ==
    IF ~user.ok THEN Respond("401", user.error, db, sq, 0, 0)
    ELSE IF user.claims.user_id = 0
    THEN Respond("401", "Invalid authentication credentials", db, sq, 0, 0)
    ELSE IF body.kind = "malformed"
    THEN Respond("400", "Invalid JSON format in request body", db, sq, 0, 0)
    ELSE ServiceResponse(CompleteProfile(user.claims.user_id, body.profile_data, fault,
                                         db, sq))

\* complete_profile_handler from the result of get_authenticated_user on
AfterAuthentication(user, body, fault, db, sq) ==
    IF ~user.ok THEN Respond("401", user.error, db, sq, 0, 0)
    ELSE IF user.claims.user_id = 0
    THEN Respond("401", "Invalid authentication credentials", db, sq, 0, 0)
    ELSE IF body.kind = "malformed"
    THEN Respond("400", "Invalid JSON format in request body", db, sq, 0, 0)
    ELSE IF body.has_user_id THEN Respond("403", "Cannot modify user_id", db, sq, 0, 0)
    ELSE ServiceResponse(CompleteProfile(user.claims.user_id, body.profile_data, fault,
                                         db, sq))

\* complete_profile_handler(event, context) at time t
CompleteProfileHandler(header, body, fault, db, sq, t, key) ==
    AfterAuthentication(GetAuthenticatedUser(header, t, key), body, fault, db, sq)

\* register_user_handler(event, context)
RegisterUserHandler(body, salt, fault, db, sq) ==
    IF body.kind = "malformed" THEN Respond("500", "JSONDecodeError", db, sq, 0, 0)
    ELSE ServiceResponse(RegisterUser(body.data, salt, fault, db, sq))

\* the tokens a client may hold at time t: issued by create_jwt_token at
\* time 0 or just now, for a user id or for none, or signed with another key
ClientTokens(t, key, alg) ==
    {CreateJwtToken(user_id, "guest", at, k, alg) :
        user_id \in UserIds \cup {0}, at \in {0, t}, k \in {key, ForeignKey}}

ClientHeaders(t, key, alg) ==
    {NoHeader, Basic(CreateJwtToken(1, "guest", t, key, alg))}
    \cup {Bearer(token) : token \in ClientTokens(t, key, alg)}

FullGuest == ProfileData(Range(GuestFields), "a1")

ClientBodies ==
    {Malformed, JsonBody(TRUE, FullGuest)}
    \cup {JsonBody(FALSE, profile_data) : profile_data \in ProfileInputs}

\* the requests to complete_profile_handler: every header with every body,
\* and a store fault met by a request that passes the handler's checks
ProfileRequests(t, key, alg) ==
    {[header |-> h, body |-> b, fault |-> "none"] :
        h \in ClientHeaders(t, key, alg), b \in ClientBodies}
    \cup {[header |-> Bearer(CreateJwtToken(u, "guest", t, key, alg)),
           body |-> JsonBody(FALSE, FullGuest), fault |-> f] :
            u \in UserIds, f \in UFaults}

RegisterBodies ==
    {[kind |-> "json", data |-> RegisterData("alice", "a@x.com", "pw", Absent)],
     [kind |-> "json", data |-> RegisterData("bob", "b@x.com", "pw", "staff")],
     [kind |-> "json", data |-> RegisterData("alice", "b@x.com", "pw", Absent)],
     [kind |-> "malformed", data |-> NoData]}

HIdle == [op |-> "none", header |-> NoHeader, body |-> Malformed, fault |-> "none", at |-> 0,
          before |-> Store3({}, {}, {}),
          r |-> Respond("", "", Store3({}, {}, {}), 0, 0, 0)]

\* a request is handled when the client holds no response; it leaves the
\* store as the handler left it and the response with the client
Handle(op, header, body, fault, r) ==
    /\ hlast = HIdle
    /\ users' = r.db.users
    /\ guest_profiles' = r.db.guest
    /\ staff_profiles' = r.db.staff
    /\ useq' = r.useq
    /\ open' = open + r.acquired - r.closed
    /\ hlast' = [op |-> op, header |-> header, body |-> body, fault |-> fault, at |-> now,
                 before |-> Db, r |-> r]
    /\ UNCHANGED <<ulast, sess, unique_enforced, overlapped>>
    /\ UNCHANGED <<qvars, avars>>

RequestCompleteProfile ==
    \E c \in ProfileRequests(now, secret, algorithm) :
        Handle("complete_profile_handler", c.header, c.body, c.fault,
               CompleteProfileHandler(c.header, c.body, c.fault, Db, useq, now, secret))

RequestRegisterUser ==
    \E body \in RegisterBodies, salt \in Salts :
        /\ useq < MaxUsers
        /\ Handle("register_user_handler", NoHeader,
                  [Malformed EXCEPT !.kind = body.kind], "none",
                  RegisterUserHandler(body, salt, "none", Db, useq))

\* the client drops the response
TakeResponse ==
    /\ hlast # HIdle
    /\ hlast' = HIdle
    /\ UNCHANGED <<uvars, sess, unique_enforced, overlapped>>
    /\ UNCHANGED <<qvars, avars>>

HNext ==
    \/ RequestRegisterUser
    \/ RequestCompleteProfile
    \/ TakeResponse
    \/ Tick

(***************************************************************************)
(* Claims about the handlers, stated on the last request.                  *)
(***************************************************************************)
\* the header carries a token that decode_jwt_token verifies at the time of
\* the request
TokenVerifies(header, t) ==
    /\ header.scheme = "Bearer"
    /\ DecodeJwtToken(header.token, t, secret).ok

Subject(header) == header.token.claims.user_id

\* the rows of every user but the subject are as they were, and of the
\* subject's User row nothing but profile_completed differs
OnlySubjectWritten(subject, before) ==
    /\ {u \in users : u.id # subject} = {u \in before.users : u.id # subject}
    /\ {[u EXCEPT !.profile_completed = FALSE] : u \in users}
          = {[u EXCEPT !.profile_completed = FALSE] : u \in before.users}
    /\ {p \in guest_profiles : p.user_id # subject}
          = {p \in before.guest : p.user_id # subject}
    /\ {p \in staff_profiles : p.user_id # subject}
          = {p \in before.staff : p.user_id # subject}

\* C11: a complete_profile_handler request changes the store only if its
\* header carries a token that verifies and its body has no key user_id; a
\* request with no or a non-verifying token is answered 401 and one whose
\* body contains user_id 403, the store unchanged; a change of the store
\* writes only the profile row and the profile_completed flag of the token's
\* subject.
C11_AuthorizationFrame ==
    hlast.op = "complete_profile_handler" =>
        /\ Db # hlast.before =>
              /\ TokenVerifies(hlast.header, hlast.at)
              /\ ~hlast.body.has_user_id
              /\ OnlySubjectWritten(Subject(hlast.header), hlast.before)
        /\ ~TokenVerifies(hlast.header, hlast.at) =>
              hlast.r.statusCode = "401" /\ Db = hlast.before
        /\ (TokenVerifies(hlast.header, hlast.at) /\ Subject(hlast.header) # 0
            /\ hlast.body.has_user_id) =>
              hlast.r.statusCode = "403" /\ Db = hlast.before

\* C11 witness: a request whose token verifies for an existing user and whose
\* body carries user_id has been answered 403.
C11_Witness ==
    /\ hlast.op = "complete_profile_handler"
    /\ TokenVerifies(hlast.header, hlast.at)
    /\ hlast.body.has_user_id
    /\ \E u \in hlast.before.users : u.id = Subject(hlast.header)
    /\ hlast.r.statusCode = "403"

(***************************************************************************)
(* upsert_row applied again by the caller of an upsert_row, with the       *)
(* arguments of the call it holds: again after a call that committed, as a *)
(* retry after one that did not.                                           *)
(***************************************************************************)
Again(r) ==
    /\ tbl' = r.tbl
    /\ seq' = r.seq
    /\ qlast' = [qlast EXCEPT !.op = IF qlast.r.commits = 1 THEN "upsert_row_again"
                                     ELSE "upsert_row_retry",
                              !.r = r, !.before = tbl]
    /\ UNCHANGED <<avars, uvars, xvars>>

RepeatUpsertRow ==
    /\ qlast.op = "upsert_row"
    /\ qlast.fault = "none"
    /\ seq < MaxSeq
    /\ Again(UpsertRow(qlast.a.table, qlast.a.data, qlast.a.conflict_column,
                       qlast.a.update_columns, qlast.a.returning, "none", tbl, seq))

PNext ==
    \/ CallInsertRow
    \/ CallUpsertRow
    \/ RepeatUpsertRow
    \/ TakeResult

(***************************************************************************)
(* Claims about upsert_row.                                                *)
(***************************************************************************)
\* the rows of `rows` whose conflict column holds the value the data gives it
Conflicting(a, rows) ==
    {r \in rows : \E key \in DOMAIN a.data :
                      key = a.conflict_column /\ r[key] = a.data[key]}

\* old with the columns named in update_columns set to the incoming values
Overwritten(old, a) ==
    [c \in Cols |-> IF    (\E i \in 1..Len(a.update_columns) : a.update_columns[i] = c)
                       /\ c \in DOMAIN a.data
                    THEN a.data[c] ELSE old[c]]

\* the arguments name columns of the table, and every column to update has
\* an incoming value
PlainUpsert(a) ==
    /\ a.table = T
    /\ DOMAIN a.data \subseteq Cols
    /\ a.conflict_column \in UniqueCols
    /\ a.update_columns # <<>>
    /\ \A i \in 1..Len(a.update_columns) : a.update_columns[i] \in DOMAIN a.data

\* C13: upsert_row applied twice in a row with identical arguments leaves
\* the rows that applying it once left; when a row with the same
\* conflict_column value exists, exactly the columns named in update_columns
\* are overwritten with the incoming values, and all other columns of that
\* row and all other rows are unchanged.
C13_UpsertIdempotent ==
    /\ qlast.op \in {"upsert_row_again", "upsert_row_retry"} => tbl = qlast.before
    /\ (qlast.op = "upsert_row" /\ PlainUpsert(qlast.a) /\ qlast.r.commits = 1) =>
          \A old \in Conflicting(qlast.a, qlast.before) :
              tbl = (qlast.before \ {old}) \cup {Overwritten(old, qlast.a)}

\* C13 restricted to data that gives a value to the conflict column and to
\* every column to update, after an application that committed: the second
\* application changes nothing (this much of the claim holds)
C13_IdempotentWithConflictValue ==
    (/\ qlast.op = "upsert_row_again"
     /\ qlast.a.conflict_column \in DOMAIN qlast.a.data
     /\ \A i \in 1..Len(qlast.a.update_columns) :
            qlast.a.update_columns[i] \in DOMAIN qlast.a.data)
        => tbl = qlast.before

(***************************************************************************)
(* Specifications: each component runs from the state after construction,  *)
(* the other components at rest.                                           *)
(***************************************************************************)
vars == <<qvars, avars, uvars, xvars>>

InitQuery ==
    /\ tbl = {} /\ seq = 0 /\ qlast = Idle
    /\ now = 0 /\ ticks = 0 /\ algorithm = "HS256" /\ secret = "k1"
    /\ issued = {} /\ expired = {} /\ tlast = NoCall
    /\ users = {} /\ useq = 0 /\ guest_profiles = {} /\ staff_profiles = {}
    /\ open = 0 /\ ulast = UIdle
    /\ hlast = HIdle /\ sess = [c \in Sessions |-> Resting] /\ unique_enforced = FALSE
    /\ overlapped = FALSE

InitAuth ==
    /\ tbl = {} /\ seq = 0 /\ qlast = Idle
    /\ now = 0 /\ ticks = 0 /\ algorithm \in Algorithms /\ secret \in Secrets
    /\ issued = {} /\ expired = {} /\ tlast = NoCall
    /\ users = {} /\ useq = 0 /\ guest_profiles = {} /\ staff_profiles = {}
    /\ open = 0 /\ ulast = UIdle
    /\ hlast = HIdle /\ sess = [c \in Sessions |-> Resting] /\ unique_enforced = FALSE
    /\ overlapped = FALSE

InitUsers ==
    /\ tbl = {} /\ seq = 0 /\ qlast = Idle
    /\ now = 0 /\ ticks = 0 /\ algorithm = "HS256" /\ secret \in Secrets
    /\ issued = {} /\ expired = {} /\ tlast = NoCall
    /\ users = {} /\ useq = 0 /\ guest_profiles = {} /\ staff_profiles = {}
    /\ open = 0 /\ ulast = UIdle
    /\ hlast = HIdle /\ sess = [c \in Sessions |-> Resting] /\ unique_enforced = FALSE
    /\ overlapped = FALSE

InitHandlers ==
    /\ tbl = {} /\ seq = 0 /\ qlast = Idle
    /\ now = 0 /\ ticks = 0 /\ algorithm \in Algorithms /\ secret = "k1"
    /\ issued = {} /\ expired = {} /\ tlast = NoCall
    /\ users = {} /\ useq = 0 /\ guest_profiles = {} /\ staff_profiles = {}
    /\ open = 0 /\ ulast = UIdle
    /\ hlast = HIdle /\ sess = [c \in Sessions |-> Resting] /\ unique_enforced = FALSE
    /\ overlapped = FALSE

InitRace ==
    /\ tbl = {} /\ seq = 0 /\ qlast = Idle
    /\ now = 0 /\ ticks = 0 /\ algorithm = "HS256" /\ secret = "k1"
    /\ issued = {} /\ expired = {} /\ tlast = NoCall
    /\ users = {} /\ useq = 0 /\ guest_profiles = {} /\ staff_profiles = {}
    /\ open = 0 /\ ulast = UIdle
    /\ hlast = HIdle /\ sess = [c \in Sessions |-> Resting]
    /\ unique_enforced \in BOOLEAN
    /\ overlapped = FALSE

SpecQuery == InitQuery /\ [][QNext]_vars
SpecAuth == InitAuth /\ [][ANext]_vars
SpecUsers == InitUsers /\ [][UNext]_vars
SpecHandlers == InitHandlers /\ [][HNext]_vars
SpecRace == InitRace /\ [][RNext]_vars
SpecUpsert == InitQuery /\ [][PNext]_vars

=============================================================================
